---- MODULE Spec2Model ----
(***************************************************************************)
(* A model of the import pipeline of chatgpt_tool (src/src/chatgpt_tool.py)*)
(* and of the older importer kept at the repository root                   *)
(* (src/chatgpt_tool.py).                                                  *)
(*                                                                         *)
(* Strings are sequences of one-character strings, so that sorting,        *)
(* joining, lower-casing and the "_v<k>" suffix are computed the way the   *)
(* code computes them.  A store is one SQLite file: its registry table     *)
(* "schema" and its data tables.                                           *)
(***************************************************************************)
EXTENDS Integers, Sequences, FiniteSets, Bags, TLC

----------------------------------------------------------------------------
(* Bounds of the model                                                      *)

\* records imported (transactions begun) in one behaviour
MaxTxns == 2
\* records in one source file
MaxBatch == 2

----------------------------------------------------------------------------
(* Strings                                                                  *)

\* the characters the model uses, in code-point order (Python compares
\* strings by code point)
CodePoints ==
  << ".", "/", "0", "1", "2", "3", "4", "5", "6", "7", "8", "9",
     "D", "I", "S", "_",
     "a", "b", "c", "d", "e", "h", "i", "j", "l", "m", "n", "o", "p", "r", "s",
     "t", "u", "v", "x", "z" >>

Ord(c) == CHOOSE i \in 1..Len(CodePoints) : CodePoints[i] = c

\* str.lower() on one character
LowerChar(c) ==
  CASE c = "D" -> "d" [] c = "I" -> "i" [] c = "S" -> "s" [] OTHER -> c

\* str.lower()
Lower(s) == [i \in 1..Len(s) |-> LowerChar(s[i])]

\* s < t for Python strings
RECURSIVE StrLess(_, _)
StrLess(s, t) ==
  IF t = << >> THEN FALSE
  ELSE IF s = << >> THEN TRUE
  ELSE IF Head(s) = Head(t) THEN StrLess(Tail(s), Tail(t))
  ELSE Ord(Head(s)) < Ord(Head(t))

\* one step of sorted(): x put into the sorted list l
RECURSIVE InsertSorted(_, _)
InsertSorted(x, l) ==
  IF l = << >> THEN << x >>
  ELSE IF StrLess(x, Head(l)) THEN << x >> \o l
  ELSE << Head(l) >> \o InsertSorted(x, Tail(l))

\* sorted(list of strings)
RECURSIVE Sorted(_)
Sorted(l) == IF l = << >> THEN << >> ELSE InsertSorted(Head(l), Sorted(Tail(l)))

\* sep.join(list of strings)
RECURSIVE Join(_, _)
Join(sep, l) ==
  IF l = << >> THEN << >>
  ELSE IF Len(l) = 1 THEN Head(l)
  ELSE Head(l) \o sep \o Join(sep, Tail(l))

\* str(n) for a natural number n
RECURSIVE DecStr(_)
DecStr(n) ==
  LET digit == << CodePoints[3 + (n % 10)] >>
  IN IF n < 10 THEN digit ELSE DecStr(n \div 10) \o digit

\* the elements of a list
Range(l) == { l[i] : i \in 1..Len(l) }

\* Python's None
None == << >>

----------------------------------------------------------------------------
(* Program constants of ChatGPTTool                                         *)

DB_NAME == "chatgpt.db"
SCHEMA_TABLE == << "s", "c", "h", "e", "m", "a" >>
CHAT_TABLE == << "c", "o", "n", "v", "e", "r", "s", "a", "t", "i", "o", "n", "s" >>
USER_TABLE == << "u", "s", "e", "r" >>

\* TABLE_MAPPING.get(table_name, table_name)
TABLE_MAPPING(table_name) ==
  CASE table_name = << "c", "h", "a", "t" >> -> CHAT_TABLE
    [] table_name = << "u", "s", "e", "r" >> -> USER_TABLE
    [] OTHER -> table_name

----------------------------------------------------------------------------
(* File names                                                               *)

\* the index of the last occurrence of c in s, 0 when there is none
LastIndex(s, c) ==
  LET hits == { i \in 1..Len(s) : s[i] = c }
  IN IF hits = {} THEN 0 ELSE CHOOSE i \in hits : \A j \in hits : j <= i

\* os.path.basename
Basename(path) == SubSeq(path, LastIndex(path, "/") + 1, Len(path))

\* os.path.splitext(name)[0]: the name up to its last dot; leading dots
\* are part of the root
SplitextRoot(name) ==
  LET dot == LastIndex(name, ".")
      leading == \A i \in 1..dot : name[i] = "."
  IN IF dot = 0 \/ leading THEN name ELSE SubSeq(name, 1, dot - 1)

\* os.path.splitext(name)[1]
SplitextExt(name) == SubSeq(name, Len(SplitextRoot(name)) + 1, Len(name))

\* string.ascii_letters + string.digits + "_"
ValidChars == Range(CodePoints) \ { ".", "/" }

\* str.strip("_")
RECURSIVE StripLeft(_)
StripLeft(s) ==
  IF s # << >> /\ Head(s) = "_" THEN StripLeft(Tail(s)) ELSE s

RECURSIVE StripRight(_)
StripRight(s) ==
  IF s # << >> /\ s[Len(s)] = "_" THEN StripRight(SubSeq(s, 1, Len(s) - 1)) ELSE s

Strip(s) == StripRight(StripLeft(s))

\* ChatGPTTool.get_table_name
get_table_name(file_path) ==
  LET suggested_name == SplitextRoot(Basename(file_path))
      table_name == [i \in 1..Len(suggested_name) |->
                       IF suggested_name[i] \in ValidChars
                       THEN suggested_name[i] ELSE "_"]
  IN TABLE_MAPPING(Strip(table_name))

\* f"{table_name}_v{version}"
VersionedName(table_name, version) == table_name \o << "_", "v" >> \o DecStr(version)

----------------------------------------------------------------------------
(* Records and fingerprints                                                 *)

\* A JSON object is the list of its (key, value) pairs in document order.
Keys(json_object) == [i \in 1..Len(json_object) |-> json_object[i][1]]

\* hashlib.md5(s).hexdigest(): taken to be collision free, so the digest
\* of s is s under a tag
Md5(s) == << "#" >> \o s

\* ChatGPTTool.calculate_column_names_hash
calculate_column_names_hash(column_names) == Md5(Join(<< >>, Sorted(column_names)))

\* get_id_and_column_names, had it taken the first field for the identity
\* of an object that has none
IdFieldNameOrFirst(json_object) ==
  LET keys == Keys(json_object)
      hits == { i \in 1..Len(keys) : Lower(keys[i]) = << "i", "d" >> }
  IN IF keys = << >> THEN None
     ELSE IF hits = {} THEN keys[1]
     ELSE keys[CHOOSE i \in hits : \A j \in hits : i <= j]

\* ChatGPTTool.get_id_and_column_names for one object
IdFieldName(json_object) ==
  LET keys == Keys(json_object)
      hits == { i \in 1..Len(keys) : Lower(keys[i]) = << "i", "d" >> }
  IN IF hits = {} THEN None
     ELSE keys[CHOOSE i \in hits : \A j \in hits : i <= j]

\* ChatGPTTool.convert_values for one value: strings are kept, the other
\* values are rendered with str()
PyNone == "py:None"
ConvertValue(value) == IF value = PyNone THEN "None" ELSE value

convert_values(json_object) ==
  [i \in 1..Len(json_object) |-> ConvertValue(json_object[i][2])]

----------------------------------------------------------------------------
(* Stores: one SQLite database file each                                    *)

\* SQL NULL
NULL == "sql:NULL"

\* A store: whether the registry table exists, its rows in rowid order,
\* and the data tables by name.  A data table has its columns in
\* declaration order, its primary-key columns and its rows.
EmptyStore == [schema_exists |-> FALSE, schema |-> << >>, tables |-> << >>]

\* ChatGPTTool.table_exists
table_exists(cursor, table_name) ==
  \/ table_name = SCHEMA_TABLE /\ cursor.schema_exists
  \/ table_name \in DOMAIN cursor.tables

\* create_schema_table, had it been DROP TABLE and CREATE TABLE
drop_and_create_schema_table(cursor) ==
  [cursor EXCEPT !.schema_exists = TRUE, !.schema = << >>]

\* ChatGPTTool.create_schema_table: CREATE TABLE IF NOT EXISTS schema (...)
create_schema_table(cursor) == [cursor EXCEPT !.schema_exists = TRUE]

\* ChatGPTTool.query_single_value("schema", "table_name", v, "hash_value")
\* through query_table: a connection of its own to the store `db`; an
\* sqlite3.Error (no table "schema") gives None; an empty v drops the WHERE
query_single_value(db, condition_value) ==
  IF ~db.schema_exists THEN None
  ELSE LET Hit(r) == condition_value = << >> \/ r.table_name = condition_value
           rows == SelectSeq(db.schema, Hit)
       IN IF rows = << >> THEN None ELSE Head(rows).hash_value

\* ChatGPTTool.get_versioned_table_name: the while loop from `version` on.
\* The result is the name, and the cache as the loop leaves it.
RECURSIVE ProbeVersions(_, _, _, _, _, _)
ProbeVersions(cursor, db, schema_cache, table_name, hash_value, version) ==
  LET versioned_table_name ==
        IF version = 1 THEN table_name ELSE VersionedName(table_name, version)
  IN IF ~table_exists(cursor, versioned_table_name)
     THEN [name |-> versioned_table_name, schema_cache |-> schema_cache]
     ELSE IF /\ versioned_table_name \in DOMAIN schema_cache
             /\ schema_cache[versioned_table_name] = hash_value
     THEN [name |-> versioned_table_name, schema_cache |-> schema_cache]
     ELSE IF hash_value = query_single_value(db, versioned_table_name)
     THEN [name |-> versioned_table_name,
           schema_cache |-> [n \in DOMAIN schema_cache \cup {versioned_table_name} |->
                               IF n = versioned_table_name THEN hash_value
                               ELSE schema_cache[n]]]
     ELSE ProbeVersions(cursor, db, schema_cache, table_name, hash_value, version + 1)

get_versioned_table_name(cursor, db, schema_cache, table_name, column_names) ==
  ProbeVersions(cursor, db, schema_cache, table_name,
                calculate_column_names_hash(column_names), 1)

\* the columns and the key of CREATE TABLE as create_table writes it
TableColumns(id_field_name, column_names) ==
  LET Other(c) == Lower(c) # Lower(id_field_name)
  IN IF id_field_name # None
     THEN << id_field_name >> \o SelectSeq(column_names, Other)
     ELSE column_names

\* the key, had create_table always taken the compound one
TableKeyAllColumns(id_field_name, column_names) == Range(column_names)

TableKey(id_field_name, column_names) ==
  IF id_field_name # None THEN { id_field_name } ELSE Range(column_names)

\* The table a name denotes in a statement: sqlite3 compares table names
\* without regard to case.  SCHEMA_TABLE stands for the registry.
StoredTables(cursor, table_name) ==
  { t \in DOMAIN cursor.tables : Lower(t) = Lower(table_name) }
    \cup (IF cursor.schema_exists /\ Lower(table_name) = SCHEMA_TABLE
          THEN { SCHEMA_TABLE } ELSE {})

\* ChatGPTTool.create_table.  With no column the statement is
\* "CREATE TABLE IF NOT EXISTS t (PRIMARY KEY ())", a syntax error, and so
\* is an empty table name.  IF NOT EXISTS makes the statement do nothing
\* when the name denotes a table already.
create_table(cursor, table_name, id_field_name, column_names) ==
  IF column_names = << >> \/ table_name = << >>
  THEN [ok |-> FALSE, cursor |-> cursor]
  ELSE IF StoredTables(cursor, table_name) # {}
  THEN [ok |-> TRUE, cursor |-> cursor]
  ELSE [ok |-> TRUE,
        cursor |-> [cursor EXCEPT !.tables =
           [n \in DOMAIN cursor.tables \cup {table_name} |->
              IF n = table_name
              THEN [columns |-> TableColumns(id_field_name, column_names),
                    key |-> TableKey(id_field_name, column_names),
                    rows |-> EmptyBag]
              ELSE cursor.tables[n]]]]

\* ChatGPTTool.record_schema_change: the registry has no key, so
\* INSERT OR IGNORE always appends
record_schema_change(cursor, hash_value, table_name, column_names) ==
  IF ~cursor.schema_exists
  THEN [ok |-> FALSE, cursor |-> cursor]
  ELSE [ok |-> TRUE,
        cursor |-> [cursor EXCEPT !.schema = Append(@,
           [hash_value |-> hash_value, table_name |-> table_name,
            column_names |-> Join(<< "," >>, column_names)])]]

\* the row that INSERT INTO t (column_names) VALUES (values) builds
NewRow(table, column_names, values) ==
  [c \in Range(table.columns) |->
     LET given == { i \in 1..Len(column_names) : Lower(column_names[i]) = Lower(c) }
     IN IF given = {} THEN NULL
        ELSE values[CHOOSE i \in given : \A j \in given : i <= j]]

\* a stored row with the key of `row`; NULL never equals NULL
KeyTaken(table, row) ==
  \E old \in BagToSet(table.rows) :
     \A k \in table.key : row[k] # NULL /\ old[k] = row[k]

\* insert_data, had it been INSERT OR REPLACE
insert_or_replace_data(cursor, table_name, column_names, values) ==
  IF \/ table_name \notin DOMAIN cursor.tables
     \/ column_names = << >>
     \/ \E i \in 1..Len(column_names) :
           \A c \in Range(cursor.tables[table_name].columns) :
              Lower(c) # Lower(column_names[i])
  THEN [ok |-> FALSE, cursor |-> cursor, changes |-> 0]
  ELSE LET table == cursor.tables[table_name]
           row == NewRow(table, column_names, values)
           kept == { old \in BagToSet(table.rows) :
                       \E k \in table.key : row[k] = NULL \/ old[k] # row[k] }
       IN [ok |-> TRUE,
           cursor |-> [cursor EXCEPT !.tables[table_name].rows =
                         SetToBag(kept \cup {row})],
           changes |-> 1]

\* the columns of the registry table
SchemaColumns ==
  << << "h", "a", "s", "h", "_", "v", "a", "l", "u", "e" >>,
     << "t", "a", "b", "l", "e", "_", "n", "a", "m", "e" >>,
     << "c", "o", "l", "u", "m", "n", "_", "n", "a", "m", "e", "s" >> >>

\* INSERT OR IGNORE INTO the registry table: it has no key, the row is
\* always added
InsertIntoSchema(cursor, column_names, values) ==
  LET Given(c) == { i \in 1..Len(column_names) : Lower(column_names[i]) = c }
      Value(c) == IF Given(c) = {} THEN NULL
                  ELSE values[CHOOSE i \in Given(c) : \A j \in Given(c) : i <= j]
  IN [cursor EXCEPT !.schema = Append(@,
        [hash_value |-> Value(SchemaColumns[1]),
         table_name |-> Value(SchemaColumns[2]),
         column_names |-> Value(SchemaColumns[3])])]

\* ChatGPTTool.insert_data: INSERT OR IGNORE.  A column the table lacks,
\* an empty column list and a missing table are sqlite3 errors.
insert_data(cursor, table_name, column_names, values) ==
  LET stored == StoredTables(cursor, table_name)
      name == CHOOSE t \in stored : TRUE
      columns == IF name \in DOMAIN cursor.tables
                   THEN Range(cursor.tables[name].columns)
                 ELSE Range(SchemaColumns)
  IN IF \/ stored = {}
        \/ column_names = << >>
        \/ \E i \in 1..Len(column_names) :
              \A c \in columns : Lower(c) # Lower(column_names[i])
     THEN [ok |-> FALSE, cursor |-> cursor, changes |-> 0]
     ELSE IF name \notin DOMAIN cursor.tables
     THEN [ok |-> TRUE,
           cursor |-> InsertIntoSchema(cursor, column_names, values),
           changes |-> 1]
     ELSE LET table == cursor.tables[name]
              row == NewRow(table, column_names, values)
          IN IF KeyTaken(table, row)
             THEN [ok |-> TRUE, cursor |-> cursor, changes |-> 0]
             ELSE [ok |-> TRUE,
                   cursor |-> [cursor EXCEPT !.tables[name].rows =
                                 @ (+) SetToBag({row})],
                   changes |-> 1]

\* ChatGPTTool.insert_data_single
insert_data_single(cursor, table_name, json_data) ==
  insert_data(cursor, table_name, Keys(json_data), convert_values(json_data))

----------------------------------------------------------------------------
(* One record: ChatGPTTool.import_single_json_object                        *)

\* the statements of the transaction at which sqlite3 may raise for a
\* reason outside the data (disk full, I/O error)
FaultPoints == { "none", "insert_data" }

\* cursor.execute("COMMIT") / cursor.execute("ROLLBACK"): what the store
\* holds afterwards, given what it held at BEGIN and what the cursor made
\* ROLLBACK, had it kept what the cursor made
RollbackNothing(at_begin, cursor) == cursor

Commit(at_begin, cursor) == cursor
Rollback(at_begin, cursor) == at_begin

\* cursor.execute("BEGIN"): the transaction sees the committed store and
\* nothing has been raised
Begin(conn) == [cursor |-> conn, raised |-> "none", changes |-> 0]

\* the statements of the try block, each skipped once something was raised
TryCreateTable(txn, table_name, json_object, fault) ==
  IF txn.raised # "none" THEN txn
  ELSE IF fault = "create_table" THEN [txn EXCEPT !.raised = "create_table"]
  ELSE LET made == create_table(txn.cursor, table_name,
                                IdFieldName(json_object), Keys(json_object))
       IN IF made.ok THEN [txn EXCEPT !.cursor = made.cursor]
          ELSE [txn EXCEPT !.raised = "create_table"]

TryRecordSchemaChange(txn, table_name, json_object, fault) ==
  IF txn.raised # "none" THEN txn
  ELSE IF fault = "record_schema_change"
  THEN [txn EXCEPT !.raised = "record_schema_change"]
  ELSE LET made == record_schema_change(txn.cursor,
                      calculate_column_names_hash(Keys(json_object)),
                      table_name, Keys(json_object))
       IN IF made.ok THEN [txn EXCEPT !.cursor = made.cursor]
          ELSE [txn EXCEPT !.raised = "record_schema_change"]

TryInsertDataSingle(txn, table_name, json_object, fault) ==
  IF txn.raised # "none" THEN txn
  ELSE IF fault = "insert_data" THEN [txn EXCEPT !.raised = "insert_data"]
  ELSE LET made == insert_data_single(txn.cursor, table_name, json_object)
       IN IF made.ok
          THEN [txn EXCEPT !.cursor = made.cursor, !.changes = made.changes]
          ELSE [txn EXCEPT !.raised = "insert_data"]

TryCommit(txn, fault) ==
  IF txn.raised = "none" /\ fault = "COMMIT"
  THEN [txn EXCEPT !.raised = "COMMIT"]
  ELSE txn

\* the try block after get_versioned_table_name has returned table_name
TryBlock(conn, table_name, json_object, fault) ==
  TryCommit(
    TryInsertDataSingle(
      IF ~table_exists(conn, table_name)
      THEN TryRecordSchemaChange(
             TryCreateTable(Begin(conn), table_name, json_object, fault),
             table_name, json_object, fault)
      ELSE Begin(conn),
      table_name, json_object, fault),
    fault)

\* COMMIT or the except clause, and what the transaction did
EndBlock(conn, resolved, json_object, txn) ==
  [store |-> IF txn.raised = "none" THEN Commit(conn, txn.cursor)
             ELSE Rollback(conn, txn.cursor),
   schema_cache |-> resolved.schema_cache,
   table |-> resolved.name,
   hash_value |-> calculate_column_names_hash(Keys(json_object)),
   outcome |-> IF txn.raised # "none" THEN "rolled back"
               ELSE IF txn.changes = 1 THEN "inserted" ELSE "ignored",
   created |-> txn.raised = "none" /\ ~table_exists(conn, resolved.name),
   raised |-> txn.raised]

Resolved(conn, resolved, json_object, fault) ==
  EndBlock(conn, resolved, json_object,
           TryBlock(conn, resolved.name, json_object, fault))

\* `conn` is the store written, `db` the store that self.db_path names
\* (read by query_single_value), both as committed when the transaction
\* begins.  `fault` is the statement at which the environment fails.
import_single_json_object(conn, db, schema_cache, table_name, json_object, fault) ==
  Resolved(conn,
           get_versioned_table_name(conn, db, schema_cache, table_name,
                                    Keys(json_object)),
           json_object, fault)

----------------------------------------------------------------------------
(* Inputs                                                                   *)

\* the database files: the default one and another
Stores == { DB_NAME, "test_db.sqlite" }

F_id == << "i", "d" >>
F_a == << "a" >>
F_b == << "b" >>
F_ab == << "a", "b" >>

\* the JSON objects a source file may hold
Records ==
  { << << F_id, "1" >>, << F_a, "x" >> >>,
    << << F_a, "y" >>, << F_id, "1" >> >>,                  \* same id, other value, other order
    << << F_id, "1" >>, << F_a, "x" >>, << F_b, "x" >> >>,  \* one field more
    << << F_a, "x" >>, << F_b, "y" >> >>,                   \* no identity field
    << << F_a, "x" >>, << F_b, "x" >> >>,
    << << F_ab, "x" >> >>,                                  \* one field named "ab"
    << >> }                                                 \* the empty object

\* the source files: a list of n objects, 1 <= n <= MaxBatch (a file
\* holding a single object is imported as the list of that object)
Sources(n) == IF n <= MaxBatch THEN [1..n -> Records] ELSE {}

Paths ==
  { << "d", "/", "u", "s", "e", "r", ".", "j", "s", "o", "n" >> }

----------------------------------------------------------------------------
(* State                                                                    *)

VARIABLES
  db_path,        \* ChatGPTTool.db_path of the running tool
  schema_cache,   \* ChatGPTTool.schema_cache of the running tool
  store,          \* the committed content of each database file
  pc,             \* "idle", "importing", "done" or "interrupted"
  conn,           \* the database import_data is (or was last) connected to
  path,           \* the file being (or last) imported
  json_data,      \* the objects of the file not yet imported
  source,         \* history: all the objects of that file
  faulted,        \* history: a fault was injected during this run
  begun,          \* history: the stores and the cache when this run began
  rerun,          \* history: this run repeats the run before it: "no",
                  \*   or how that run ended ("done", "interrupted")
  target,         \* history: what the repeated run left (or would have left)
  last,           \* history: the last transaction
  txns,           \* history: records imported so far
  arg,            \* the arguments of a function called on its own
  res,            \* and what it returned
  written         \* history: << store, table, logical name >> of every
                  \*   record inserted

vars == << db_path, schema_cache, store, pc, conn, path, json_data, source,
           faulted, begun, rerun, target, last, txns, arg, res, written >>

NoLast == [outcome |-> "none"]

\* import_json_data_to_sqlite's loop run to its end with no fault: the
\* store `conn` is left with, from committed state `st` of conn; `same`
\* says that self.db_path names conn too, else it names `other`
RECURSIVE ImportAll(_, _, _, _, _, _)
ImportAll(st, other, same, cache, name, data) ==
  IF data = << >> THEN st
  ELSE LET r == import_single_json_object(st, IF same THEN st ELSE other,
                                           cache, name, Head(data), "none")
       IN ImportAll(r.store, other, same, r.schema_cache, name, Tail(data))

Init ==
  /\ db_path = DB_NAME
  /\ schema_cache = << >>
  /\ store = [s \in Stores |-> EmptyStore]
  /\ pc = "idle"
  /\ conn = None
  /\ path = None
  /\ json_data = << >>
  /\ source = << >>
  /\ faulted = FALSE
  /\ begun = None
  /\ rerun = "no"
  /\ target = None
  /\ last = NoLast
  /\ txns = 0
  /\ arg = None
  /\ res = None
  /\ written = {}

Idle == pc \in { "idle", "done", "interrupted" }

\* ChatGPTTool.__init__ in a new process: the default db_path, an empty
\* cache
NewTool ==
  /\ Idle
  /\ schema_cache # << >>
  /\ db_path' = DB_NAME
  /\ schema_cache' = << >>
  /\ UNCHANGED << store, pc, conn, path, json_data, source, faulted, begun,
                  rerun, target, last, txns, arg, res, written >>

\* ChatGPTTool.import_data(db_name, data_path) for a JSON file, up to the
\* loop of import_json_data_to_sqlite: connect, create_schema_table,
\* traverse_files, process_file, json.load, get_table_name.
\* `repeats` says that the call repeats the call before it.
StartImport(db_name, data_path, data, repeats) ==
  /\ LET booted == create_schema_table(store[db_name])
     IN /\ store' = [store EXCEPT ![db_name] = booted]
        /\ target' = IF ~repeats THEN None
                     ELSE IF pc = "done" THEN store[conn]
                     ELSE ImportAll(begun.conn, begun.db, db_path = db_name,
                                    begun.schema_cache, get_table_name(data_path), data)
        /\ begun' = IF repeats /\ pc = "interrupted" THEN begun
                    ELSE [conn |-> booted, db |-> store[db_path],
                          schema_cache |-> schema_cache]
  /\ rerun' = IF repeats THEN pc ELSE "no"
  /\ pc' = "importing"
  /\ conn' = db_name
  /\ path' = data_path
  /\ json_data' = data
  /\ source' = data
  /\ faulted' = FALSE
  /\ last' = NoLast
  /\ UNCHANGED << db_path, schema_cache, arg, res, written >>

ImportData(db_name, data_path, data) ==
  /\ Idle
  /\ txns + Len(data) <= MaxTxns
  /\ txns' = txns + Len(data)
  /\ StartImport(db_name, data_path, data, FALSE)

\* import_data is called with some store and some source file
ImportFile ==
  \E n \in 1..(MaxTxns - txns) :
     \E d \in Stores, f \in Paths, data \in Sources(n) : ImportData(d, f, data)

\* the import that just ended, done or interrupted, is called once more
\* with the same arguments and the same file (not counted in txns)
ImportDataAgain ==
  /\ pc \in { "done", "interrupted" }
  /\ rerun = "no"
  /\ ~faulted
  /\ txns' = txns
  /\ StartImport(conn, path, source, TRUE)

\* import_single_json_object has returned, having caught what was raised:
\* the for loop goes on with the objects that are left
AfterRecord(objects) == Tail(objects)

\* one turn of the loop of import_json_data_to_sqlite
ImportSingleJsonObject(fault) ==
  /\ pc = "importing"
  /\ json_data # << >>
  /\ LET r == import_single_json_object(store[conn], store[db_path], schema_cache,
                                        get_table_name(path), Head(json_data), fault)
     IN /\ store' = [store EXCEPT ![conn] = r.store]
        /\ schema_cache' = r.schema_cache
        /\ last' = [outcome |-> r.outcome, table |-> r.table,
                    hash_value |-> r.hash_value, created |-> r.created,
                    raised |-> r.raised, injected |-> (fault # "none" /\ r.raised = fault),
                    json_object |-> Head(json_data),
                    index |-> Len(source) - Len(json_data) + 1,
                    before |-> store[conn]]
        /\ faulted' = (faulted \/ (r.raised # "none" /\ r.raised = fault))
        /\ written' = IF r.outcome = "inserted"
                       THEN written \cup { << conn, r.table, get_table_name(path) >> }
                       ELSE written
  /\ json_data' = AfterRecord(json_data)
  /\ UNCHANGED << db_path, pc, conn, path, source, begun, rerun, target, txns,
                  arg, res >>

\* the loop is over: conn.commit(), cursor.close(), the connection closes
Finish ==
  /\ pc = "importing"
  /\ json_data = << >>
  /\ pc' = "done"
  /\ begun' = None
  /\ last' = NoLast
  /\ UNCHANGED << db_path, schema_cache, store, conn, path, json_data, source,
                  faulted, rerun, target, txns, arg, res, written >>

\* the process is killed between two transactions (killed inside one,
\* SQLite rolls that one back when the file is next opened)
Interrupt ==
  /\ pc = "importing"
  /\ json_data # << >>
  /\ pc' = "interrupted"
  /\ schema_cache' = << >>
  /\ json_data' = << >>
  /\ last' = NoLast
  /\ UNCHANGED << db_path, store, conn, path, source, faulted, begun, rerun,
                  target, txns, arg, res, written >>

Next ==
  \/ NewTool
  \/ ImportFile
  \/ ImportDataAgain
  \/ \E fault \in FaultPoints : ImportSingleJsonObject(fault)
  \/ Finish
  \/ Interrupt

Spec == Init /\ [][Next]_vars

----------------------------------------------------------------------------
(* What the properties below speak of                                       *)

\* a transaction of import_single_json_object has just ended
Txn == last.outcome # "none"

\* the store written, as the last transaction found it and as it left it
Old == last.before
New == store[conn]

\* the field names of a record, as a set
Fields(json_object) == Range(Keys(json_object))

\* the logical name of the batch being imported
LogicalName == get_table_name(path)

\* the run writes the store that self.db_path names
SameStore == conn = db_path

\* t is one of the versioned names of table_name
IsVersionOf(t, table_name) ==
  \E k \in 2..(MaxTxns + 2) : t = VersionedName(table_name, k)

\* the bindings of a registry
Bound(registry, name) ==
  \E i \in 1..Len(registry) : registry[i].table_name = name

BoundTo(registry, name, f) ==
  \E i \in 1..Len(registry) :
     registry[i].table_name = name /\ registry[i].hash_value = f

\* the resolution rule over a registry: the name itself when it is unbound
\* or bound to f, otherwise the versioned name of the smallest K >= 2 that
\* is unbound or bound to f
RECURSIVE Resolve(_, _, _, _)
Resolve(registry, table_name, f, version) ==
  LET name == IF version = 1 THEN table_name
              ELSE VersionedName(table_name, version)
  IN IF ~Bound(registry, name) \/ BoundTo(registry, name, f) THEN name
     ELSE Resolve(registry, table_name, f, version + 1)

\* the stored row of a record in a table
RowOf(table, json_object) ==
  NewRow(table, Keys(json_object), convert_values(json_object))

\* the table holds a row under the key of the record
HoldsKeyOf(table, json_object) ==
  \E old \in BagToSet(table.rows) :
     \A k \in table.key : old[k] = RowOf(table, json_object)[k]

----------------------------------------------------------------------------
(* C1  Idempotent re-import                                                 *)

\* C1: importing a source and then importing it again leaves every table
\* of the store with the rows it had after the first import, and no table
\* more.
C1_IdempotentReimport ==
  (pc = "done" /\ rerun = "done") => store[conn].tables = target.tables

\* C1 where the store written is the one self.db_path names, as the
\* command line always has it: there the second import changes nothing,
\* the registry included.
C1_IdempotentReimportSameStore ==
  (pc = "done" /\ rerun = "done" /\ SameStore) => store[conn] = target

\* a second import of a source that stored something has ended
C1_Reimported ==
  /\ pc = "done" /\ rerun = "done" /\ SameStore
  /\ \E t \in DOMAIN store[conn].tables :
        store[conn].tables[t].rows # EmptyBag

----------------------------------------------------------------------------
(* C2  First write wins                                                     *)

\* C2: when a record is inserted into a table of its own fields that
\* already holds a row under the record's primary-key value, the insert
\* succeeds silently and the store, the stored row with it, is left as it
\* was.
C2_FirstWriteWins ==
  ( /\ Txn
    /\ last.table \in DOMAIN Old.tables
    /\ Range(Old.tables[last.table].columns) = Fields(last.json_object)
    /\ HoldsKeyOf(Old.tables[last.table], last.json_object)
    /\ ~last.injected )
  => /\ last.outcome = "ignored"
     /\ last.raised = "none"
     /\ New = Old

\* a record was ignored whose other fields differ from the stored row's
C2_IgnoredDifferingRecord ==
  /\ Txn
  /\ last.outcome = "ignored"
  /\ Range(New.tables[last.table].columns) = Fields(last.json_object)
  /\ ~BagIn(RowOf(New.tables[last.table], last.json_object),
            New.tables[last.table].rows)

----------------------------------------------------------------------------
(* C3  Non-destructive versioning                                           *)

\* C3: a record whose field names differ from the columns of the table
\* that has its logical name goes to a versioned table of its own shape,
\* and no import changes the columns or the rows of a table that exists.
C3_NonDestructiveVersioning ==
  Txn =>
    /\ \A t \in DOMAIN Old.tables :
          /\ t \in DOMAIN New.tables
          /\ New.tables[t].columns = Old.tables[t].columns
          /\ Old.tables[t].rows \sqsubseteq New.tables[t].rows
    /\ ( /\ LogicalName \in DOMAIN Old.tables
         /\ Range(Old.tables[LogicalName].columns) # Fields(last.json_object)
         /\ last.json_object # << >>
         /\ ~last.injected )
       => /\ IsVersionOf(last.table, LogicalName)
          /\ last.table \in DOMAIN New.tables
          /\ Range(New.tables[last.table].columns) = Fields(last.json_object)
          /\ HoldsKeyOf(New.tables[last.table], last.json_object)

\* the second half alone: a table that exists keeps its columns and rows
C3_ExistingTablesUntouched ==
  Txn =>
    \A t \in DOMAIN Old.tables :
       /\ t \in DOMAIN New.tables
       /\ New.tables[t].columns = Old.tables[t].columns
       /\ New.tables[t].key = Old.tables[t].key
       /\ Old.tables[t].rows \sqsubseteq New.tables[t].rows

\* C3 where the store written is the one self.db_path names
C3_NonDestructiveVersioningSameStore ==
  SameStore => C3_NonDestructiveVersioning

----------------------------------------------------------------------------
(* C4  Table resolution rule                                                *)

\* C4: a record of fingerprint f and logical name n is written to n when
\* n is unbound or bound to f, otherwise to n_vK for the smallest K >= 2
\* that is unbound or bound to f, and the table it is written to is bound
\* to f afterwards.
C4_TableResolutionRule ==
  Txn =>
    /\ last.table = Resolve(Old.schema, LogicalName, last.hash_value, 1)
    /\ last.outcome # "rolled back"
       => /\ BoundTo(New.schema, last.table, last.hash_value)
          /\ HoldsKeyOf(New.tables[last.table], last.json_object)

\* C4 where the store written is the one self.db_path names
C4_TableResolutionRuleSameStore ==
  SameStore => C4_TableResolutionRule

----------------------------------------------------------------------------
(* C5  Fingerprint of a field-name set                                      *)

\* the field names of the lists fingerprinted
ColumnNames == { F_id, F_a, F_b, F_ab }

MaxColumns == 2

\* lists of 1 to MaxColumns distinct field names
ColumnLists ==
  UNION { { l \in [1..n -> ColumnNames] :
              \A i, j \in 1..n : l[i] = l[j] => i = j } : n \in 1..MaxColumns }

\* calculate_column_names_hash is called on two lists of field names
InitFingerprint ==
  /\ arg \in ColumnLists \X ColumnLists
  /\ res = None
  /\ db_path = DB_NAME
  /\ schema_cache = << >>
  /\ store = [s \in Stores |-> EmptyStore]
  /\ pc = "idle"
  /\ conn = None
  /\ path = None
  /\ json_data = << >>
  /\ source = << >>
  /\ faulted = FALSE
  /\ begun = None
  /\ rerun = "no"
  /\ target = None
  /\ last = NoLast
  /\ txns = 0
  /\ written = {}

CalculateColumnNamesHash ==
  /\ res = None
  /\ res' = << calculate_column_names_hash(arg[1]),
               calculate_column_names_hash(arg[2]) >>
  /\ UNCHANGED << db_path, schema_cache, store, pc, conn, path, json_data,
                  source, faulted, begun, rerun, target, last, txns, arg,
                  written >>

NextFingerprint == CalculateColumnNamesHash

SpecFingerprint == InitFingerprint /\ [][NextFingerprint]_vars

\* C5: two lists of field names have the same fingerprint exactly when
\* they hold the same set of names.
C5_FingerprintIffSameSet ==
  res # None => ((res[1] = res[2]) <=> (Range(arg[1]) = Range(arg[2])))

\* the half of C5 that holds: the same names in any order have the same
\* fingerprint
C5_FingerprintIgnoresOrder ==
  (res # None /\ Range(arg[1]) = Range(arg[2])) => res[1] = res[2]

----------------------------------------------------------------------------
(* C6  A record without an identity field                                   *)

\* the record has a field named id, in any case
HasIdentity(json_object) ==
  \E i \in 1..Len(json_object) : Lower(json_object[i][1]) = << "i", "d" >>

----------------------------------------------------------------------------
(* C7  Key choice in create_table                                           *)

\* C7: the table created for a record with an identity field has that
\* field alone as its primary key; the table created for a record with
\* none has all its columns as the key, so that a record equal in every
\* field to a stored one adds no row and a record that differs in some
\* field is stored beside it.
C7_KeyChoice ==
  Txn =>
    /\ last.created =>
         New.tables[last.table].key =
            IF HasIdentity(last.json_object)
            THEN { c \in Fields(last.json_object) : Lower(c) = << "i", "d" >> }
            ELSE Fields(last.json_object)
    /\ ( /\ ~HasIdentity(last.json_object)
         /\ last.json_object # << >>
         /\ ~last.injected
         /\ \/ last.table \notin DOMAIN Old.tables
            \/ Range(Old.tables[last.table].columns) = Fields(last.json_object) )
       => /\ last.outcome # "rolled back"
          /\ CopiesIn(RowOf(New.tables[last.table], last.json_object),
                      New.tables[last.table].rows) = 1
          /\ \A t \in DOMAIN Old.tables :
                Old.tables[t].rows \sqsubseteq New.tables[t].rows
          /\ last.outcome = "ignored"
                <=> /\ last.table \in DOMAIN Old.tables
                    /\ BagIn(RowOf(New.tables[last.table], last.json_object),
                             Old.tables[last.table].rows)

\* a record with no identity field was ignored as the copy of one of the
\* two rows, different in one field, of its table
C7_CopyIgnoredBesideOther ==
  /\ Txn
  /\ ~HasIdentity(last.json_object)
  /\ last.outcome = "ignored"
  /\ BagCardinality(New.tables[last.table].rows) = 2

----------------------------------------------------------------------------
(* C8  Failure isolation per record group                                   *)

\* C8: when the transaction of one record fails, the store is left as the
\* transaction found it, the commits of the earlier records included, and
\* the import goes on with the records after it.
C8_FailureIsolation ==
  (Txn /\ last.raised # "none") =>
    /\ last.outcome = "rolled back"
    /\ New = Old
    /\ pc = "importing"
    /\ json_data = SubSeq(source, last.index + 1, Len(source))

\* the second record of a source failed after its table had been created
\* and bound, the first one having been committed
C8_FailedAfterCommit ==
  /\ Txn
  /\ last.raised = "insert_data"
  /\ last.table \notin DOMAIN Old.tables
  /\ last.json_object # << >>
  /\ last.index = 2
  /\ \E t \in DOMAIN Old.tables : Old.tables[t].rows # EmptyBag

----------------------------------------------------------------------------
(* C9  Safe re-run after interruption                                       *)

\* C9: importing a source again after an interrupted import of it ends in
\* the store that one uninterrupted import would have made.
C9_SafeRerun ==
  (pc = "done" /\ rerun = "interrupted" /\ ~faulted) => store[conn] = target

\* C9 where the store written is the one self.db_path names
C9_SafeRerunSameStore ==
  (pc = "done" /\ rerun = "interrupted" /\ ~faulted /\ SameStore)
     => store[conn] = target

----------------------------------------------------------------------------
(* C10  Binding permanence and idempotent bootstrap                         *)

\* C10: no step removes the registry or changes a binding in it, be it the
\* bootstrap of a store that has one or a later import: the rows it holds
\* stay as they are, in their order, and a name is never bound to two
\* fingerprints.
C10_BindingPermanence ==
  [][ \A s \in Stores :
        /\ store[s].schema_exists => store'[s].schema_exists
        /\ Len(store[s].schema) <= Len(store'[s].schema)
        /\ SubSeq(store'[s].schema, 1, Len(store[s].schema)) = store[s].schema
        /\ \A i, j \in 1..Len(store'[s].schema) :
              store'[s].schema[i].table_name = store'[s].schema[j].table_name
                 => store'[s].schema[i].hash_value = store'[s].schema[j].hash_value
    ]_vars

\* an import has bootstrapped a store whose registry had bindings
C10_BootstrappedAgain ==
  /\ pc = "importing"
  /\ last = NoLast
  /\ store[conn].schema # << >>

----------------------------------------------------------------------------
(* C11  One table per (logical name, fingerprint)                           *)

\* the rows of a registry that bind a table name
RowsNaming(registry, name) ==
  { i \in 1..Len(registry) : registry[i].table_name = name }

\* store s holds one table for each fingerprint imported under the one
\* logical name of the runs: no fingerprint is bound to two tables, and a
\* table holds the records of one fingerprint only, that of its columns
OneTablePerFingerprint(s) ==
  /\ \A i, j \in 1..Len(store[s].schema) :
        store[s].schema[i].hash_value = store[s].schema[j].hash_value => i = j
  /\ \A t \in DOMAIN store[s].tables :
        /\ \E i \in RowsNaming(store[s].schema, t) :
              store[s].schema[i].hash_value =
                 calculate_column_names_hash(store[s].tables[t].columns)
        /\ \A row \in BagToSet(store[s].tables[t].rows) :
              \A c \in DOMAIN row : row[c] # NULL

\* C11: after any sequence of imports a store holds exactly one data table
\* for each (logical name, fingerprint) pair imported into it: a pair is
\* never spread over two tables and two pairs never share a table.
C11_OneTablePerPair == \A s \in Stores : OneTablePerFingerprint(s)

\* C11 for the store self.db_path names, which every run that writes it
\* also resolves against
C11_OneTablePerPairSameStore == OneTablePerFingerprint(db_path)

----------------------------------------------------------------------------
(* C12  Name-first binding                                                  *)

\* two source files of different logical names, user and user_v2
NamedPaths ==
  { << "d", "/", "u", "s", "e", "r", ".", "j", "s", "o", "n" >>,
    << "d", "/", "u", "s", "e", "r", "_", "v", "2", ".", "j", "s", "o", "n" >> }

\* the objects they may hold: two shapes, two identities
NamedRecords ==
  { << << F_id, "1" >>, << F_a, "x" >> >>,
    << << F_id, "1" >>, << F_a, "x" >>, << F_b, "x" >> >>,
    << << F_id, "2" >>, << F_a, "x" >>, << F_b, "x" >> >> }

MaxNamedTxns == 3

\* import_data as the command line calls it, on the store self.db_path
\* names, with one of the two files
ImportNamedFile ==
  \E n \in 1..(MaxNamedTxns - txns) :
     \E f \in NamedPaths, data \in [1..n -> NamedRecords] :
        /\ Idle
        /\ txns' = txns + n
        /\ StartImport(db_path, f, data, FALSE)

NextNames ==
  \/ ImportNamedFile
  \/ ImportSingleJsonObject("none")
  \/ Finish

SpecNames == Init /\ [][NextNames]_vars

\* C12: the records of a file are stored in a table named after the file,
\* its logical name or a version of it, and no table holds records from
\* files of two logical names, whatever their fingerprints.
C12_NameFirstBinding ==
  /\ \A w \in written : w[2] = w[3] \/ IsVersionOf(w[2], w[3])
  /\ \A w1, w2 \in written :
        (w1[1] = w2[1] /\ w1[2] = w2[2]) => w1[3] = w2[3]

\* the half of C12 that holds: the table is named after the file
C12_NamedAfterFile ==
  \A w \in written : w[2] = w[3] \/ IsVersionOf(w[2], w[3])

\* records of one shape from the two files are in two tables, one named
\* after each file
C12_SameShapeTwoTables ==
  \E w1, w2 \in written :
     /\ w1[2] = w1[3] /\ w2[2] = w2[3] /\ w1[3] # w2[3]
     /\ Range(store[w1[1]].tables[w1[2]].columns)
          = Range(store[w2[1]].tables[w2[2]].columns)

-----------------------------------------------------------------------------
(* Conversation reconstruction: ChatGPTTool.get_conversation_messages       *)

MaxNodes == 2

\* node ids (uuid strings in an export)
NodeNames == << "n1", "n2", "n3", "n4" >>
NodeIds == { NodeNames[i] : i \in 1..MaxNodes }

\* Python's `key in d` and truth value of a dict (None and {} are false)
Has(d, key) == key \in DOMAIN d
Truthy(d) == DOMAIN d # {}

\* the "message" values a node of an export can hold: none, a text message,
\* a text message whose only part is empty, a message with another kind of
\* content (no "parts"), a text message with no part at all
TextMessage ==
  [author |-> [role |-> "assistant"],
   content |-> [content_type |-> "text", parts |-> << "hi" >>]]
EmptyTextMessage ==
  [author |-> [role |-> "system"],
   content |-> [content_type |-> "text", parts |-> << "" >>]]
OtherContentMessage ==
  [author |-> [role |-> "tool"],
   content |-> [content_type |-> "system_error", name |-> "x"]]
NoPartsMessage ==
  [author |-> [role |-> "user"],
   content |-> [content_type |-> "text", parts |-> << >>]]
NodeMessages ==
  { None, TextMessage, EmptyTextMessage, OtherContentMessage,
    NoPartsMessage }

\* a node: its parent id (or None) and its message
Nodes == [parent : NodeIds \cup {PyNone}, message : NodeMessages]

\* the dicts over some of the node ids
Mappings == UNION { [ids -> Nodes] : ids \in SUBSET NodeIds }

\* The text held in the conversations table's mapping column: the repr of a
\* dict (written by convert_values' str()), or another string.
ReprOf(mapping) == << "repr", mapping >>
EmptyText == << "str", "" >>
UnclosedText == << "str", "{oops" >>
ListText == << "str", "[1]" >>
MappingTexts ==
  { ReprOf(mapping) : mapping \in Mappings }
    \cup { EmptyText, UnclosedText, ListText }

\* Python's truth value of a string
TruthyText(text) == ~(text[1] = "str" /\ text[2] = "")

\* ast.literal_eval: the dict a repr denotes, the list of "[1]", SyntaxError
\* for text that is no Python literal
literal_eval(text) ==
  IF text[1] = "repr"
    THEN [raised |-> "none", kind |-> "dict", value |-> text[2]]
  ELSE IF text = ListText
    THEN [raised |-> "none", kind |-> "list", value |-> << >>]
  ELSE [raised |-> "SyntaxError", kind |-> "none", value |-> << >>]

\* the rows of the conversations table handed to get_conversation_messages
Conversations ==
  [id : {"c"}, mapping : MappingTexts, current_node : NodeIds \cup {PyNone}]
    \cup [id : {"c"}, current_node : NodeIds \cup {PyNone}]

Reverse(s) == [i \in 1..Len(s) |-> s[Len(s) + 1 - i]]

\* the position of a call of get_conversation_messages
Walk(p, node, messages, visited, result, exception, warned) ==
  [pc |-> p, current_node |-> node, messages |-> messages,
   visited |-> visited, result |-> result, exception |-> exception,
   warned |-> warned]

\* the body of `if node and "message" in node and node["message"]`: the
\* messages list after it, or the exception it raises
CollectMessage(current_node, node, messages) ==
  IF ~(Truthy(node) /\ Has(node, "message") /\ Truthy(node.message))
    THEN [raised |-> "none", messages |-> messages]
  ELSE IF ~(Has(node.message, "author") /\ Has(node.message, "content"))
    THEN [raised |-> "none", messages |-> messages]
  ELSE IF ~Has(node.message.author, "role")
    THEN [raised |-> "KeyError", messages |-> messages]
  ELSE IF ~(/\ Has(node.message.content, "content_type")
            /\ node.message.content.content_type = "text"
            /\ Has(node.message.content, "parts"))
    THEN [raised |-> "none", messages |-> messages]
  ELSE IF Len(node.message.content.parts) = 0
    THEN [raised |-> "IndexError", messages |-> messages]
  ELSE [raised |-> "none",
        messages |-> Append(messages,
                       [id |-> current_node,
                        author |-> node.message.author.role,
                        timestamp |-> IF Has(node.message, "create_time")
                                        THEN node.message.create_time ELSE 0,
                        text |-> node.message.content.parts[1]])]

\* one pass of `while current_node is not None` from walk position w
WhileBody(parsed, w) ==
  IF parsed.kind # "dict"
    THEN Walk("raised", w.current_node, w.messages, w.visited, << >>,
              "AttributeError", w.warned)
  ELSE IF w.current_node \notin DOMAIN parsed.value
    \* mapping.get gives None, the if is skipped, None.get raises
    THEN Walk("raised", w.current_node, w.messages,
              w.visited \cup {w.current_node}, << >>, "AttributeError",
              w.warned)
  ELSE LET node == parsed.value[w.current_node]
           c == CollectMessage(w.current_node, node, w.messages)
       IN IF c.raised # "none"
            THEN Walk("raised", w.current_node, w.messages,
                      w.visited \cup {w.current_node}, << >>, c.raised,
                      w.warned)
          ELSE Walk("walking",
                    IF Has(node, "parent") THEN node.parent ELSE PyNone,
                    c.messages, w.visited \cup {w.current_node}, << >>,
                    "none", w.warned)

InitMessages ==
  /\ arg \in Conversations
  /\ res = Walk("called", PyNone, << >>, {}, << >>, "none", FALSE)
  /\ db_path = DB_NAME
  /\ schema_cache = << >>
  /\ store = [s \in Stores |-> EmptyStore]
  /\ pc = "idle"
  /\ conn = None
  /\ path = None
  /\ json_data = << >>
  /\ source = << >>
  /\ faulted = FALSE
  /\ begun = None
  /\ rerun = "no"
  /\ target = None
  /\ last = NoLast
  /\ txns = 0
  /\ written = {}

ImportUnchanged ==
  UNCHANGED << db_path, schema_cache, store, pc, conn, path, json_data,
               source, faulted, begun, rerun, target, last, txns, written >>

\* the call up to the loop: the missing-or-empty test, the parse guarded
\* by `except json.JSONDecodeError` (which no error of literal_eval is),
\* messages = [] and current_node
GetConversationMessages ==
  /\ res.pc = "called"
  /\ res' =
       IF ~Has(arg, "mapping") \/ ~TruthyText(arg.mapping)
         THEN Walk("returned", PyNone, << >>, {}, << >>, "none", TRUE)
       ELSE IF literal_eval(arg.mapping).raised # "none"
         THEN Walk("raised", PyNone, << >>, {}, << >>,
                   literal_eval(arg.mapping).raised, FALSE)
       ELSE Walk("walking", arg.current_node, << >>, {}, << >>, "none",
                 FALSE)
  /\ UNCHANGED arg
  /\ ImportUnchanged

\* one pass of the loop.  The pass depends on current_node alone, so a pass
\* at a node the walk has already left starts the same passes again without
\* end: the position is then "looping".
WhileIteration ==
  /\ res.pc = "walking"
  /\ res.current_node # PyNone
  /\ res' =
       IF res.current_node \in res.visited
         THEN Walk("looping", res.current_node, res.messages, res.visited,
                   << >>, "none", res.warned)
       ELSE WhileBody(literal_eval(arg.mapping), res)
  /\ UNCHANGED arg
  /\ ImportUnchanged

\* return messages[::-1]
ReturnMessages ==
  /\ res.pc = "walking"
  /\ res.current_node = PyNone
  /\ res' = Walk("returned", PyNone, res.messages, res.visited,
                 Reverse(res.messages), "none", res.warned)
  /\ UNCHANGED arg
  /\ ImportUnchanged

NextMessages == GetConversationMessages \/ WhileIteration \/ ReturnMessages

SpecMessages == InitMessages /\ [][NextMessages]_vars

\* --- what the claims about reconstruction speak of ---

\* the call was given a mapping column that parses into a dict
IsMapping ==
  /\ Has(arg, "mapping")
  /\ TruthyText(arg.mapping)
  /\ literal_eval(arg.mapping).kind = "dict"

TheMapping == literal_eval(arg.mapping).value

\* the parent chain of a mapping from a node, leaf first, and how it ends:
\* at the root, at an id absent from the mapping, or at a node met before
RECURSIVE ParentChain(_, _, _)
ParentChain(mapping, node, seen) ==
  IF node = PyNone THEN [ids |-> << >>, ends |-> "root"]
  ELSE IF node \notin DOMAIN mapping THEN [ids |-> << >>, ends |-> "dangling"]
  ELSE IF node \in seen THEN [ids |-> << >>, ends |-> "cycle"]
  ELSE LET rest == ParentChain(mapping, mapping[node].parent,
                               seen \cup {node})
       IN [ids |-> << node >> \o rest.ids, ends |-> rest.ends]

Chain == ParentChain(TheMapping, arg.current_node, {})

\* a node that carries a message with an author role and non-empty text
MessageBearing(node) ==
  /\ Truthy(node.message)
  /\ Has(node.message, "author") /\ Has(node.message.author, "role")
  /\ Has(node.message, "content") /\ Has(node.message.content, "parts")
  /\ Len(node.message.content.parts) > 0
  /\ node.message.content.parts[1] # ""

\* the message-bearing nodes of the chain, oldest first
BearingOldestFirst ==
  LET Bears(n) == MessageBearing(TheMapping[n])
  IN SelectSeq(Reverse(Chain.ids), Bears)

ResultIds == [i \in 1..Len(res.result) |-> res.result[i].id]

CallEnded == res.pc \notin { "called", "walking" }

\* C13: for an acyclic parent chain from current_node to the root, the call
\* returns a transcript with one entry per message-bearing node of the chain
\* (as many entries as such nodes), in root-to-leaf order.
C13_ReconstructionOrdering ==
  (IsMapping /\ Chain.ends = "root" /\ CallEnded)
    => (res.pc = "returned" /\ ResultIds = BearingOldestFirst)

\* What the loop and the reversal do give on such a chain: whenever the call
\* returns, the entries stand in root-to-leaf order of the chain.
C13_ReturnedOldestFirst ==
  (IsMapping /\ res.pc = "returned")
    => LET InResult(n) == n \in Range(ResultIds)
       IN ResultIds = SelectSeq(Reverse(Chain.ids), InResult)

\* C14: when the chain from current_node reaches an id that is absent from
\* the mapping (current_node itself included), the call raises nothing and
\* returns the messages of the nodes reached before it, oldest first.
C14_DanglingParent ==
  (IsMapping /\ Chain.ends = "dangling" /\ CallEnded)
    => (res.pc = "returned" /\ ResultIds = BearingOldestFirst)

\* C15: for every mapping, one with a cycle of parent pointers reachable
\* from current_node included, the walk ends after finitely many passes: it
\* never starts a pass at a node it has already left, which is the start of
\* an endless repetition.
C15_CycleTermination ==
  (IsMapping /\ Chain.ends = "cycle") => res.pc # "looping"

\* C16: when the mapping field is missing, empty or does not parse into a
\* mapping, the call returns the empty sequence with a warning and raises
\* nothing.
C16_BadMapping ==
  (~IsMapping /\ res.pc # "called")
    => (res.pc = "returned" /\ res.result = << >> /\ res.warned)

\* The part of C16 that the first test of the function does give: a missing
\* or empty mapping field returns the empty sequence with a warning.
C16_MissingOrEmptyReturnsEmpty ==
  ((~Has(arg, "mapping") \/ ~TruthyText(arg.mapping)) /\ res.pc # "called")
    => (res.pc = "returned" /\ res.result = << >> /\ res.warned)

\* C17: a returned transcript holds exactly the nodes of the chain that
\* carry a message with an author role and non-empty text, each under the
\* role stored in the node; and a node of the mapping without such a message
\* never stops the walk.
C17_MessageFilter ==
  IsMapping =>
    /\ res.pc = "returned" =>
         /\ Range(ResultIds) = { n \in res.visited :
                                   MessageBearing(TheMapping[n]) }
         /\ \A i \in 1..Len(res.result) :
              res.result[i].author
                = TheMapping[res.result[i].id].message.author.role
    /\ (res.pc = "raised" /\ res.current_node \in DOMAIN TheMapping)
         => MessageBearing(TheMapping[res.current_node])

\* The part of C17 about roles: every entry carries the role stored in its
\* node, and the entry's text is the node's first part.
C17_RawStoredRole ==
  (IsMapping /\ res.pc = "returned") =>
    \A i \in 1..Len(res.result) :
      /\ res.result[i].author
           = TheMapping[res.result[i].id].message.author.role
      /\ res.result[i].text
           = TheMapping[res.result[i].id].message.content.parts[1]

-----------------------------------------------------------------------------
(* Traversal of a directory: import_data, traverse_files, process_file,     *)
(* extract_json_from_html                                                   *)

MaxFiles == 2

\* Text is a list of tokens.  "r1" is the text of the JSON object
\*   {"id": "1", "a": "x"},  "r0" the text {} inside a list.
JsonObjects == [r0 |-> << >>, r1 |-> << << F_id, "1" >>, << F_a, "x" >> >>]

\* json.loads / json.load
json_loads(text) ==
  IF text = << "[", "]" >>
    THEN [raised |-> "none", kind |-> "list", value |-> << >>]
  ELSE IF text = << "{", "}" >>
    THEN [raised |-> "none", kind |-> "dict", value |-> << >>]
  ELSE IF Len(text) = 1 /\ text[1] \in DOMAIN JsonObjects
    THEN [raised |-> "none", kind |-> "dict", value |-> JsonObjects[text[1]]]
  ELSE IF /\ Len(text) = 3 /\ text[1] = "[" /\ text[3] = "]"
          /\ text[2] \in DOMAIN JsonObjects
    THEN [raised |-> "none", kind |-> "list",
          value |-> << JsonObjects[text[2]] >>]
  ELSE [raised |-> "JSONDecodeError", kind |-> "none", value |-> << >>]

\* the files of the model, by name
A_json == << "a", ".", "j", "s", "o", "n" >>
B_json == << "b", ".", "j", "s", "o", "n" >>
D_json == << "d", ".", "j", "s", "o", "n" >>
E_json == << "e", ".", "j", "s", "o", "n" >>
J_json == << "j", ".", "j", "s", "o", "n" >>
P_json == << "p", ".", "j", "s", "o", "n" >>
JP_json == << "j", "p", ".", "j", "s", "o", "n" >>
H_html == << "h", ".", "h", "t", "m", "l" >>
N_html == << "n", ".", "h", "t", "m", "l" >>
O_html == << "o", ".", "h", "t", "m", "l" >>
C_html == << "c", ".", "h", "t", "m", "l" >>
I_html == << "i", ".", "h", "t", "m", "l" >>
Z_zip == << "z", ".", "z", "i", "p" >>
M_zip == << "m", ".", "z", "i", "p" >>
R_zip == << "r", ".", "z", "i", "p" >>
V_zip == << "v", ".", "z", "i", "p" >>
L_zip == << "l", ".", "z", "i", "p" >>
X_zip == << "x", ".", "z", "i", "p" >>
S_dir == << "s", "/" >>
S_json == << "s", "/", "s", ".", "j", "s", "o", "n" >>
T_txt == << "t", ".", "t", "x", "t" >>
U_txt == << "u", ".", "t", "x", "t" >>

\* what a file holds: the tokens of a .json or .txt file, the elements of an
\* .html file (tag, lines), the member names of an archive in the order of
\* namelist() (a name ending with "/" is a directory entry); nothing for a
\* zero-byte file
Content(file) ==
  CASE file = A_json -> << "[", "r1", "]" >>
    [] file = B_json -> << "{", "oops" >>
    [] file = D_json -> << "r1" >>
    [] file = J_json -> << "{", "}" >>
    [] file = P_json -> << "[", "]" >>
    [] file = JP_json -> << "[", "r0", "]" >>
    [] file = H_html ->
         << << "script", << << "var", "jsonData =", "[", "r1", "]", ";" >> >> >> >>
    [] file = N_html ->
         << << "p", << << "jsonData =", "[", "r1", "]" >> >> >>,
            << "script", << << "var", "x", ";" >> >> >> >>
    [] file = O_html ->
         << << "script", << << "var", "jsonData =", "5", ";" >> >> >> >>
    [] file = C_html ->
         << << "script", << << "var", "jsonData =", "[", "oops", "]", ";" >> >> >> >>
    [] file = M_zip -> << D_json >>
    [] file = R_zip -> << B_json >>
    [] file = V_zip -> << M_zip, R_zip >>
    [] file = L_zip -> << S_dir, S_json >>
    [] file = X_zip -> << S_json, S_dir >>
    [] file = S_json -> << "[", "r1", "]" >>
    [] file = U_txt -> << "hi" >>
    [] OTHER -> << >>

\* the files a directory given to import may hold
DirFiles ==
  { A_json, B_json, E_json, J_json, P_json, JP_json, H_html, N_html, O_html, C_html, I_html, Z_zip,
    M_zip, V_zip, L_zip, X_zip, T_txt, U_txt }

\* os.walk: the files of a directory in the order the system lists them
Walks ==
  UNION { { w \in [1..n -> DirFiles] :
              \A i, j \in 1..n : i # j => w[i] # w[j] } : n \in 0..MaxFiles }

\* os.path.getsize
getsize(file) == Len(Content(file))

\* str.endswith
EndsWith(s, suffix) ==
  /\ Len(s) >= Len(suffix)
  /\ SubSeq(s, Len(s) - Len(suffix) + 1, Len(s)) = suffix

\* str.index and str.rindex: 0 stands for ValueError
Index(text, token) ==
  LET hits == { i \in 1..Len(text) : text[i] = token }
  IN IF hits = {} THEN 0 ELSE CHOOSE i \in hits : \A j \in hits : i <= j

RIndex(text, token) ==
  LET hits == { i \in 1..Len(text) : text[i] = token }
  IN IF hits = {} THEN 0 ELSE CHOOSE i \in hits : \A j \in hits : j <= i

\* Soup(html_content).find('script', mode='all', partial=False): the lines
\* of each script element
script_tags(html_content) ==
  LET IsScript(element) == element[1] = "script"
      found == SelectSeq(html_content, IsScript)
  IN [i \in 1..Len(found) |-> found[i][2]]

\* 'jsonData =' in (a line of) script_tag.text
HasAssignment(line) == \E i \in 1..Len(line) : line[i] = "jsonData ="

\* the try block of extract_json_from_html for one line and its handler:
\* json_string is bound only after index and rindex, and the handler reads
\* it
ExtractFromLine(line_with_json) ==
  LET json_start == Index(line_with_json, "[")
      json_end == RIndex(line_with_json, "]")
  IN IF json_start = 0 \/ json_end = 0
       \* ValueError is caught; printing json_string raises
       THEN [raised |-> "UnboundLocalError", json_data |-> None,
             found |-> FALSE]
     ELSE LET json_string == SubSeq(line_with_json, json_start, json_end)
              loaded == json_loads(json_string)
          IN IF loaded.raised # "none"
               \* caught: the warning, the truncated string, return None
               THEN [raised |-> "none", json_data |-> None, found |-> FALSE]
             ELSE [raised |-> "none", json_data |-> loaded.value,
                   found |-> TRUE]

\* ChatGPTTool.extract_json_from_html: the first script element with the
\* assignment decides; with none, the warning and []
RECURSIVE ExtractFromTags(_)
ExtractFromTags(tags) ==
  IF tags = << >>
    THEN [raised |-> "none", json_data |-> << >>, found |-> FALSE]
  ELSE LET lines == SelectSeq(Head(tags), HasAssignment)
       IN IF lines = << >> THEN ExtractFromTags(Tail(tags))
          ELSE ExtractFromLine(Head(lines))

extract_json_from_html(html_content) ==
  ExtractFromTags(script_tags(html_content))

\* the loop of import_json_data_to_sqlite
RECURSIVE ImportObjects(_, _, _, _)
ImportObjects(st, cache, table_name, data) ==
  IF data = << >> THEN [store |-> st, schema_cache |-> cache]
  ELSE LET r == import_single_json_object(st, st, cache, table_name,
                                           Head(data), "none")
       IN ImportObjects(r.store, r.schema_cache, table_name, Tail(data))

\* import_json_data_to_sqlite, had it stored the object r1 for an empty
\* payload
import_default_for_empty(st, cache, data, is_list, file_path) ==
  ImportObjects(st, cache, get_table_name(file_path),
                IF data = << >> THEN << JsonObjects.r1 >>
                ELSE IF is_list THEN data ELSE << data >>)

\* ChatGPTTool.import_json_data_to_sqlite on the store self.db_path names
import_json_data_to_sqlite(st, cache, data, is_list, file_path) ==
  IF data = << >> THEN [store |-> st, schema_cache |-> cache]
  ELSE ImportObjects(st, cache, get_table_name(file_path),
                     IF is_list THEN data ELSE << data >>)

\* the outcome of process_file
Processed(raised, imported, warnings) ==
  [raised |-> raised, store |-> imported.store,
   schema_cache |-> imported.schema_cache, warnings |-> warnings]

\* ChatGPTTool.process_file
process_file(st, cache, file_path) ==
  LET file_extension == Lower(SplitextExt(file_path))
      same == [store |-> st, schema_cache |-> cache]
  IN IF getsize(file_path) = 0
       THEN Processed("none", same, << << "Skipping empty file", file_path >> >>)
     ELSE IF file_extension = << ".", "j", "s", "o", "n" >>
       THEN LET loaded == json_loads(Content(file_path))
            IN IF loaded.raised # "none"
                 THEN Processed(loaded.raised, same, << >>)
               ELSE Processed("none",
                      import_json_data_to_sqlite(st, cache, loaded.value,
                        loaded.kind = "list", file_path), << >>)
     ELSE IF file_extension = << ".", "h", "t", "m", "l" >>
       THEN LET extracted == extract_json_from_html(Content(file_path))
            IN IF extracted.raised # "none"
                 THEN Processed(extracted.raised, same, << >>)
               ELSE IF extracted.found /\ extracted.json_data # << >>
                 THEN Processed("none",
                        import_json_data_to_sqlite(st, cache,
                          extracted.json_data, TRUE, file_path), << >>)
               ELSE Processed("none", same,
                      << << "No JSON data found", file_path >> >>)
     ELSE Processed("none", same, << << "Unexpected file format", file_path >> >>)

\* a level of traverse_files: the temporary directory of the archive being
\* read (0 for the directory given to import), the paths still to traverse,
\* the member files extracted so far
Frame(temp_dir, files, extracted) ==
  [temp_dir |-> temp_dir, files |-> files, extracted |-> extracted]

\* the position of a call of import_data on a directory: the levels of
\* traverse_files (innermost first), the warnings printed, the exception
\* that left the call; and, as a record of the run, the number of temporary
\* directories created, the ones removed in order of removal, the pairs
\* (outer, inner) of nested ones, the paths handed to process_file
Traversal(p, stack, warnings, exception, created, removed, nested, handed) ==
  [pc |-> p, stack |-> stack, warnings |-> warnings, exception |-> exception,
   created |-> created, removed |-> removed, nested |-> nested,
   handed |-> handed]

\* the with blocks of tempfile.TemporaryDirectory() left by an exception:
\* the directories they remove, innermost first
TempDirsOf(stack) ==
  LET Scoped(frame) == frame.temp_dir # 0
      frames == SelectSeq(stack, Scoped)
  IN [i \in 1..Len(frames) |-> frames[i].temp_dir]

\* the same, had the directories been made by mkdtemp with no with block
cleanup_never(stack) == << >>

cleanup_on_exception(stack) == TempDirsOf(stack)

\* the exception leaves every level: nothing is left to traverse
Raise(w, exception, created, removed, nested) ==
  Traversal("raised", << >>, w.warnings, exception, created, removed, nested,
            w.handed)

IsDirEntry(name) == name # << >> /\ name[Len(name)] = "/"

StartsWith(s, prefix) ==
  Len(s) >= Len(prefix) /\ SubSeq(s, 1, Len(prefix)) = prefix

\* the lists of the elements of a set, each once
Orders(set) ==
  { w \in [1..Cardinality(set) -> set] :
      \A i, j \in 1..Cardinality(set) : i # j => w[i] # w[j] }

InitTraverse ==
  /\ arg \in Walks
  /\ res = Traversal("called", << >>, << >>, "none", 0, << >>, {}, << >>)
  /\ db_path = DB_NAME
  /\ schema_cache = << >>
  /\ store = [s \in Stores |-> EmptyStore]
  /\ pc = "idle"
  /\ conn = None
  /\ path = None
  /\ json_data = << >>
  /\ source = << >>
  /\ faulted = FALSE
  /\ begun = None
  /\ rerun = "no"
  /\ target = None
  /\ last = NoLast
  /\ txns = 0
  /\ written = {}

TraverseUnchanged ==
  UNCHANGED << db_path, pc, json_data, source, faulted, begun, rerun, target,
               last, txns, written, arg >>

\* the innermost level and the path it traverses next
Top == Head(res.stack)
NextPath == Head(Top.files)
Traversing ==
  res.pc = "traversing" /\ res.stack # << >> /\ Top.files # << >>

\* the innermost level after its next path, with `extracted` as its files
Advance(extracted) ==
  << Frame(Top.temp_dir, Tail(Top.files), extracted) >> \o Tail(res.stack)

\* zip_file.extract(name) of a member file puts it into the temporary
\* directory; a path of the directory given to import is there already
Extracted ==
  IF Top.temp_dir = 0 THEN Top.extracted ELSE Top.extracted \cup {NextPath}

\* import_data(DB_NAME, directory): connect, create_schema_table, and
\* os.walk of traverse_files
ImportDirectory ==
  /\ res.pc = "called"
  /\ conn' = DB_NAME
  /\ store' = [store EXCEPT ![DB_NAME] = create_schema_table(store[DB_NAME])]
  /\ res' = Traversal("traversing", << Frame(0, arg, {}) >>, << >>, "none",
                      0, << >>, {}, << >>)
  /\ UNCHANGED << schema_cache, path >>
  /\ TraverseUnchanged

\* traverse_files on the next path when it ends with ".zip": a temporary
\* directory, ZipFile, then each member extracted and traversed before the
\* paths that follow
ReadArchive ==
  /\ Traversing
  /\ EndsWith(NextPath, << ".", "z", "i", "p" >>)
  /\ path' = NextPath
  /\ LET temp_dir == res.created + 1
         nested == res.nested \cup
                     { << outer, temp_dir >> : outer \in Range(TempDirsOf(res.stack)) }
     IN res' = IF getsize(NextPath) = 0
                 THEN Raise(res, "BadZipFile", temp_dir,
                            res.removed \o cleanup_on_exception(
                              << Frame(temp_dir, << >>, {}) >> \o res.stack),
                            nested)
               ELSE Traversal("traversing",
                              << Frame(temp_dir, Content(NextPath), {}) >>
                                \o Advance(Extracted),
                              res.warnings, "none", temp_dir, res.removed,
                              nested, res.handed)
  /\ UNCHANGED << store, schema_cache, conn >>
  /\ TraverseUnchanged

\* traverse_files on a directory entry of an archive: extract makes the
\* directory, and os.walk lists the member files already extracted below it
WalkExtractedDirectory ==
  /\ Traversing
  /\ IsDirEntry(NextPath)
  /\ path' = NextPath
  /\ \E found \in Orders({ f \in Top.extracted : StartsWith(f, NextPath) }) :
       res' = Traversal("traversing",
                        << Frame(Top.temp_dir, found \o Tail(Top.files),
                                 Top.extracted) >> \o Tail(res.stack),
                        res.warnings, "none", res.created, res.removed,
                        res.nested, res.handed)
  /\ UNCHANGED << store, schema_cache, conn >>
  /\ TraverseUnchanged

\* traverse_files on any other path: process_file; an exception leaves
\* traverse_files and import_data
ProcessFile ==
  /\ Traversing
  /\ ~EndsWith(NextPath, << ".", "z", "i", "p" >>)
  /\ ~IsDirEntry(NextPath)
  /\ path' = NextPath
  /\ LET done == process_file(store[conn], schema_cache, NextPath)
         handed == Append(res.handed, NextPath)
     IN /\ store' = [store EXCEPT ![conn] = done.store]
        /\ schema_cache' = done.schema_cache
        /\ res' = IF done.raised # "none"
                    THEN Raise([res EXCEPT !.handed = handed], done.raised,
                               res.created,
                               res.removed \o cleanup_on_exception(res.stack),
                               res.nested)
                  ELSE Traversal("traversing", Advance(Extracted),
                                 res.warnings \o done.warnings, "none",
                                 res.created, res.removed, res.nested, handed)
  /\ UNCHANGED conn
  /\ TraverseUnchanged

\* the members of an archive are all traversed: the with blocks of ZipFile
\* and TemporaryDirectory end, the directory is removed
CloseArchive ==
  /\ res.pc = "traversing"
  /\ res.stack # << >>
  /\ Top.files = << >>
  /\ Top.temp_dir # 0
  /\ res' = Traversal("traversing", Tail(res.stack), res.warnings, "none",
                      res.created, Append(res.removed, Top.temp_dir),
                      res.nested, res.handed)
  /\ UNCHANGED << store, schema_cache, conn, path >>
  /\ TraverseUnchanged

\* the walk is over: the with block of import_data ends
EndTraversal ==
  /\ res.pc = "traversing"
  /\ res.stack # << >>
  /\ Top.files = << >>
  /\ Top.temp_dir = 0
  /\ res' = Traversal("done", << >>, res.warnings, "none", res.created,
                      res.removed, res.nested, res.handed)
  /\ UNCHANGED << store, schema_cache, conn, path >>
  /\ TraverseUnchanged

NextTraverse ==
  \/ ImportDirectory \/ ReadArchive \/ WalkExtractedDirectory \/ ProcessFile
  \/ CloseArchive \/ EndTraversal

SpecTraverse == InitTraverse /\ [][NextTraverse]_vars

\* --- what the claims about traversal speak of ---

\* the sources that hold the object r1 in a form the tool reads
GoodSources == { A_json, H_html, M_zip }

\* the file whose name gives the table of a source
NamingFile(file) == IF file = M_zip THEN D_json ELSE file

\* the object of the source is in the table named after it
Imported(file) ==
  LET name == get_table_name(NamingFile(file))
  IN /\ name \in DOMAIN store[DB_NAME].tables
     /\ HoldsKeyOf(store[DB_NAME].tables[name], JsonObjects.r1)

\* no table, binding or row exists for the file
NothingWritten(file) ==
  /\ get_table_name(file) \notin DOMAIN store[DB_NAME].tables
  /\ \A i \in 1..Len(store[DB_NAME].schema) :
       store[DB_NAME].schema[i].table_name # get_table_name(file)

TraversalEnded == res.pc \in { "done", "raised" }

\* the run met only files of `skipped` besides good sources, and at least
\* one of them
MetOnly(skipped) ==
  /\ TraversalEnded
  /\ Range(arg) \subseteq (skipped \cup GoodSources)
  /\ Range(arg) \cap skipped # {}

\* the run reached its end, left nothing for the files of `skipped` and
\* imported every other source
SkippedAlone(skipped) ==
  /\ res.pc = "done"
  /\ \A f \in Range(arg) \cap skipped : NothingWritten(f)
  /\ \A f \in Range(arg) \cap GoodSources : Imported(f)

Warned(text, file) == << text, file >> \in Range(res.warnings)

\* C18: when one source of a traversal holds a payload that is not JSON,
\* that source alone is skipped: every other source of the run, before and
\* after it, is imported.
C18_MalformedJsonNonFatal ==
  MetOnly({ B_json }) => SkippedAlone({ B_json })

\* C19: an HTML file with no script element holding the assignment, or
\* whose assignment line has no bracketed array, or an array that does not
\* parse, raises nothing, leaves nothing written, and the traversal goes on
\* with the next file.
C19_HtmlExtractionNonFatal ==
  MetOnly({ N_html, O_html, C_html })
    => SkippedAlone({ N_html, O_html, C_html })

\* The cases of C19 the handler does cover: no script element with the
\* assignment, and an array that does not parse.
C19_NoAssignmentOrBadArraySkipped ==
  MetOnly({ N_html, C_html })
    => (/\ SkippedAlone({ N_html, C_html })
        /\ \A f \in Range(arg) \cap { N_html, C_html } :
             Warned("No JSON data found", f))

\* C20: every zero-byte file met in a traversal, whatever its extension, is
\* skipped with a warning, gives no table, binding or row, and does not stop
\* the traversal.
C20_ZeroByteFiles ==
  MetOnly({ E_json, I_html, Z_zip, T_txt })
    => (/\ SkippedAlone({ E_json, I_html, Z_zip, T_txt })
        /\ \A f \in Range(arg) \cap { E_json, I_html, Z_zip, T_txt } :
             Warned("Skipping empty file", f))

\* The zero-byte files that reach process_file are skipped so.
C20_ZeroByteSkippedByProcessFile ==
  MetOnly({ E_json, I_html, T_txt })
    => (/\ SkippedAlone({ E_json, I_html, T_txt })
        /\ \A f \in Range(arg) \cap { E_json, I_html, T_txt } :
             Warned("Skipping empty file", f))

IsArchive(file) == EndsWith(file, << ".", "z", "i", "p" >>)

\* the regular files below a list of paths: the files themselves and the
\* member files of the archives among them, at any depth
RECURSIVE FilesIn(_)
FilesIn(paths) ==
  IF paths = << >> THEN {}
  ELSE (IF IsArchive(Head(paths)) THEN FilesIn(Content(Head(paths)))
        ELSE IF IsDirEntry(Head(paths)) THEN {}
        ELSE { Head(paths) })
       \cup FilesIn(Tail(paths))

\* the archives below a list of paths, at any depth
RECURSIVE ArchivesIn(_)
ArchivesIn(paths) ==
  IF paths = << >> THEN {}
  ELSE (IF IsArchive(Head(paths))
          THEN { Head(paths) } \cup ArchivesIn(Content(Head(paths)))
        ELSE {})
       \cup ArchivesIn(Tail(paths))

Count(list, x) == Cardinality({ i \in 1..Len(list) : list[i] = x })

\* the temporary directories that exist
TempDirsLeft == (1..res.created) \ Range(res.removed)

\* C21: a temporary extraction directory exists only while the archive it
\* was made for is being traversed; when the traversal has ended, normally
\* or by an exception from a nested traversal, none is left, each was
\* removed once, and a directory made inside another was removed before it.
C21_ScopedExtraction ==
  (res.pc # "called") =>
    /\ TempDirsLeft = Range(TempDirsOf(res.stack))
    /\ TraversalEnded => TempDirsLeft = {}
    /\ \A d \in 1..res.created : Count(res.removed, d) <= 1
    /\ TraversalEnded =>
         \A pair \in res.nested :
            \E i, j \in 1..Len(res.removed) :
               i < j /\ res.removed[i] = pair[2] /\ res.removed[j] = pair[1]

\* an exception left the traversal from an archive inside an archive
C21_RaisedInsideNestedArchive ==
  /\ res.pc = "raised"
  /\ res.nested # {}
  /\ Len(res.removed) >= 3
  /\ \E pair \in res.nested :
       \E i \in 1..Len(res.removed) :
          /\ i = Len(res.removed) - 1
          /\ res.removed[i] = pair[2] /\ res.removed[i + 1] = pair[1]

\* C22: a traversal that reaches its end has handed every regular file of
\* the tree, and every member file of every archive at any depth, to
\* process_file exactly once, whatever the order of the entries of an
\* archive; and no table is named after an archive.
C22_ExactlyOnceDiscovery ==
  (res.pc = "done") =>
    /\ \A f \in FilesIn(arg) : Count(res.handed, f) = 1
    /\ \A z \in ArchivesIn(arg) :
         get_table_name(z) \notin DOMAIN store[DB_NAME].tables

\* What the traversal does give: every such file is handed over at least
\* once, only such files are, and no table is named after an archive.
C22_EveryFileDiscovered ==
  (res.pc = "done") =>
    /\ Range(res.handed) = FilesIn(arg)
    /\ \A z \in ArchivesIn(arg) :
         get_table_name(z) \notin DOMAIN store[DB_NAME].tables

-----------------------------------------------------------------------------
(* Identifiers: get_table_name and the statements of create_table and       *)
(* insert_data                                                              *)

MaxNameLen == 3

\* the characters of file names: a letter, the underscore, a character
\* outside the allow list
NameChars == { "a", "_", "." }

NameRoots ==
  UNION { [1..n -> NameChars] : n \in 1..MaxNameLen }
    \cup { << "c", "h", "a", "t" >>, << ".", "c", "h", "a", "t" >> }

\* the paths of the files: with or without a directory, with or without
\* the extension
NamedFiles ==
  { dir \o root \o ext :
      dir \in { << >>, << "d", "/" >> }, root \in NameRoots,
      ext \in { << >>, << ".", "j", "s", "o", "n" >> } }

F_a_dot_b == << "a", ".", "b" >>

\* the JSON objects: fields named of allow-listed characters or not
KeyedObjects ==
  { << << F_id, "1" >>, << F_a, "x" >> >>,
    << << F_a, "x" >> >>,
    << << F_id, "1" >>, << F_a_dot_b, "x" >> >>,
    << << F_a_dot_b, "x" >>, << F_a, "x" >> >> }

\* create_table: the names put into the text of the CREATE TABLE statement,
\* in the order of the text
create_table_query(table_name, id_field_name, column_names) ==
  LET Other(c) == Lower(c) # Lower(id_field_name)
  IN << table_name >>
       \o (IF id_field_name # None
             THEN << id_field_name >> \o SelectSeq(column_names, Other)
           ELSE column_names \o column_names)

\* insert_data: the names put into the text of the INSERT statement
insert_query(table_name, column_names) == << table_name >> \o column_names

\* the position of the import of one object of one file
Statements(p, table_name, created, inserted) ==
  [pc |-> p, table_name |-> table_name, create |-> created,
   insert |-> inserted]

InitIdentifiers ==
  /\ arg \in [file : NamedFiles, json_object : KeyedObjects]
  /\ res = Statements("called", << >>, << >>, << >>)
  /\ db_path = DB_NAME
  /\ schema_cache = << >>
  /\ store = [s \in Stores |-> EmptyStore]
  /\ pc = "idle"
  /\ conn = None
  /\ path = None
  /\ json_data = << >>
  /\ source = << >>
  /\ faulted = FALSE
  /\ begun = None
  /\ rerun = "no"
  /\ target = None
  /\ last = NoLast
  /\ txns = 0
  /\ written = {}

\* import_json_data_to_sqlite: table_name = self.get_table_name(path)
GetTableName ==
  /\ res.pc = "called"
  /\ res' = Statements("named", get_table_name(arg.file), << >>, << >>)
  /\ UNCHANGED arg
  /\ ImportUnchanged

\* import_single_json_object on a new store: the name is not bound, so it
\* is the table's name, and create_table writes its statement
CreateTableQuery ==
  /\ res.pc = "named"
  /\ res' = Statements("created", res.table_name,
                       create_table_query(res.table_name,
                                          IdFieldName(arg.json_object),
                                          Keys(arg.json_object)),
                       << >>)
  /\ UNCHANGED arg
  /\ ImportUnchanged

\* insert_data_single writes its statement
InsertQuery ==
  /\ res.pc = "created"
  /\ res' = Statements("inserted", res.table_name, res.create,
                       insert_query(res.table_name, Keys(arg.json_object)))
  /\ UNCHANGED arg
  /\ ImportUnchanged

NextIdentifiers == GetTableName \/ CreateTableQuery \/ InsertQuery

SpecIdentifiers == InitIdentifiers /\ [][NextIdentifiers]_vars

\* ASCII letters, digits and the underscore
AllowListed(name) == \A i \in 1..Len(name) : name[i] \notin { ".", "/" }

\* C23: every table name and every column name put into a CREATE TABLE or
\* INSERT statement consists of allow-listed characters only, whatever the
\* file name and the field names of the input.
C23_IdentifierSanitization ==
  \A name \in Range(res.create) \cup Range(res.insert) : AllowListed(name)

\* What get_table_name gives: the table name of the statements is
\* allow-listed.
C23_TableNameAllowListed ==
  (res.pc # "called") => AllowListed(res.table_name)

\* the base name of the file without its extension
BaseRoot == SplitextRoot(Basename(arg.file))

\* each character outside the allow list replaced by an underscore
Replaced(name) ==
  [i \in 1..Len(name) |-> IF name[i] \in { ".", "/" } THEN "_" ELSE name[i]]

\* the name without its leading and trailing underscores
Trimmed(name) ==
  LET kept == { i \in 1..Len(name) : name[i] # "_" }
  IN IF kept = {} THEN << >>
     ELSE SubSeq(name, CHOOSE i \in kept : \A j \in kept : i <= j,
                 CHOOSE i \in kept : \A j \in kept : j <= i)

StoredUnder(name) ==
  IF name = << "c", "h", "a", "t" >> THEN CHAT_TABLE ELSE name

\* C24 as stated: the name is the base name without its extension with the
\* characters outside the allow list made underscores; 'chat' is stored
\* under 'conversations' and no table 'chat' is created.
C24_SuggestedTableName ==
  (res.pc # "called") =>
    /\ res.table_name = StoredUnder(Replaced(BaseRoot))
    /\ \A i \in 1..Len(res.create) : res.create[i] # << "c", "h", "a", "t" >>

\* What get_table_name does give: the name is the base name without its extension with the
\* characters outside the allow list made underscores and then without its
\* leading and trailing underscores; 'chat' is stored under 'conversations'
\* and no table 'chat' is created.
C24_SuggestedTableNameStripped ==
  (res.pc # "called") =>
    /\ res.table_name = StoredUnder(Trimmed(Replaced(BaseRoot)))
    /\ res.table_name # << "c", "h", "a", "t" >>
    /\ (res.create # << >>) => res.create[1] = res.table_name

-----------------------------------------------------------------------------
(* C25  The fingerprint cache                                               *)

\* table resolution for the batch's logical name as the tool would do it
\* now, with its cache, and as it is done from the registry of the store
\* written alone
ResolvedWithCache(json_object) ==
  get_versioned_table_name(store[conn], store[db_path], schema_cache,
                           LogicalName, Keys(json_object)).name

ResolvedFromRegistry(json_object) ==
  get_versioned_table_name(store[conn], store[conn], << >>,
                           LogicalName, Keys(json_object)).name

CacheIsMemoization ==
  /\ \A n \in DOMAIN schema_cache :
        BoundTo(store[conn].schema, n, schema_cache[n])
  /\ \A json_object \in Records :
        ResolvedWithCache(json_object) = ResolvedFromRegistry(json_object)

\* C25: after any sequence of imports of one tool instance, resolution with
\* the cache gives the table name that resolution from the persisted
\* registry alone gives, and every cache entry is the binding persisted for
\* that table in the store being written.
C25_CacheIsMemoization == Txn => CacheIsMemoization

\* The same for the runs that write the store self.db_path names.
C25_CacheIsMemoizationSameStore == (Txn /\ SameStore) => CacheIsMemoization

-----------------------------------------------------------------------------
(* C26  Empty payloads                                                      *)

\* the sources whose payload is {}, [] and [{}]
EmptyPayloads == { J_json, P_json, JP_json }

\* no table and no registry row bears the name of the file or one of its
\* versioned names
NothingNamedAfter(file) ==
  LET Named(t) == t = get_table_name(file) \/ IsVersionOf(t, get_table_name(file))
  IN /\ \A t \in DOMAIN store[DB_NAME].tables : ~Named(t)
     /\ \A i \in 1..Len(store[DB_NAME].schema) :
          ~Named(store[DB_NAME].schema[i].table_name)

\* the rows of all the tables of the store
RowCount ==
  LET tables == store[DB_NAME].tables
      RECURSIVE Sum(_)
      Sum(names) ==
        IF names = {} THEN 0
        ELSE LET n == CHOOSE x \in names : TRUE
             IN BagCardinality(tables[n].rows) + Sum(names \ {n})
  IN Sum(DOMAIN tables)

\* C26: importing a source whose payload is an empty object, an empty list
\* or a list of empty objects creates no table named after the source and
\* adds no registry row and no data row: when only such sources were met
\* besides good ones, the store holds one table, one registry row and one
\* data row for each good source and nothing else.
C26_EmptyPayloadsChangeNothing ==
  /\ \A f \in EmptyPayloads : NothingNamedAfter(f)
  /\ (res.pc = "done" /\ Range(arg) \subseteq (EmptyPayloads \cup GoodSources))
       => LET good == Cardinality(Range(arg) \cap GoodSources)
          IN /\ Cardinality(DOMAIN store[DB_NAME].tables) = good
             /\ Len(store[DB_NAME].schema) = good
             /\ RowCount = good

\* a list of empty objects has been imported after a good source
C26_EmptyObjectsImported ==
  /\ res.pc = "done"
  /\ arg = << A_json, JP_json >>
  /\ res.handed = arg
  /\ Imported(A_json)

\* The same for one empty object in any batch, whatever the store holds
\* already: its transaction leaves the tables and the registry of the store
\* as they were.
C26_EmptyObjectLeavesStore ==
  (Txn /\ last.json_object = << >>)
    => (/\ store[conn].tables = last.before.tables
        /\ store[conn].schema = last.before.schema)

----------------------------------------------------------------------------
(* Names that differ by case only, and the name of the registry             *)

F_ID == << "I", "D" >>

\* source files whose logical names are d, D, schema and Schema
CasePaths ==
  { << "d", "/", "d", ".", "j", "s", "o", "n" >>,
    << "d", "/", "D", ".", "j", "s", "o", "n" >>,
    << "d", "/", "s", "c", "h", "e", "m", "a", ".", "j", "s", "o", "n" >>,
    << "d", "/", "S", "c", "h", "e", "m", "a", ".", "j", "s", "o", "n" >> }

\* an object with the field names of a registry row
RegistryShaped ==
  << << SchemaColumns[1], << "x" >> >>,
     << SchemaColumns[2], SCHEMA_TABLE >>,
     << SchemaColumns[3], << "x" >> >> >>

\* the objects they may hold
CaseRecords ==
  { << << F_id, "1" >>, << F_a, "x" >> >>,
    << << F_id, "2" >>, << F_a, "x" >> >>,
    << << F_id, "1" >>, << F_ID, "2" >> >>,      \* two keys that differ by case
    RegistryShaped }

MaxCaseTxns == 2

\* import_data as the command line calls it, on the store self.db_path
\* names, with one of the four files
ImportCaseFile ==
  \E n \in 1..(MaxCaseTxns - txns) :
     \E f \in CasePaths, data \in [1..n -> CaseRecords] :
        /\ Idle
        /\ txns' = txns + n
        /\ StartImport(db_path, f, data, FALSE)

NextCase ==
  \/ ImportCaseFile
  \/ \E fault \in FaultPoints : ImportSingleJsonObject(fault)
  \/ Finish

SpecCase == Init /\ [][NextCase]_vars

----------------------------------------------------------------------------
(* C27  Table/registry atomicity                                            *)

\* every data table of the store is named by exactly one registry row,
\* whose fingerprint is that of the table's columns, and every registry
\* row names a data table
TablesAreBindings(db) ==
  /\ \A t \in DOMAIN db.tables :
        /\ Cardinality(RowsNaming(db.schema, t)) = 1
        /\ \A i \in RowsNaming(db.schema, t) :
              db.schema[i].hash_value =
                 calculate_column_names_hash(db.tables[t].columns)
  /\ \A i \in 1..Len(db.schema) : db.schema[i].table_name \in DOMAIN db.tables

\* C27: after any sequence of imports, rolled back records included, a
\* data table exists if and only if the registry holds exactly one row
\* naming it, with the fingerprint of the table's column set; a record that
\* fails leaves neither a table nor a binding behind.
C27_TableRegistryAtomicity ==
  /\ \A s \in Stores : TablesAreBindings(store[s])
  /\ (Txn /\ last.outcome = "rolled back") =>
        /\ DOMAIN New.tables = DOMAIN Old.tables
        /\ New.schema = Old.schema

\* the part of C27 that holds, for files of one logical name whose
\* objects have no two keys that differ by case only
C27_TableRegistryAtomicityOneName ==
  /\ \A s \in Stores : TablesAreBindings(store[s])
  /\ (Txn /\ last.outcome = "rolled back") =>
        /\ DOMAIN New.tables = DOMAIN Old.tables
        /\ New.schema = Old.schema
        /\ pc = "importing"

----------------------------------------------------------------------------
(* C28  Single-store resolution                                             *)

\* the loop of import_json_data_to_sqlite has handled every object of the
\* source, none of them met by a fault of the environment
RunEnded ==
  /\ pc = "importing" /\ json_data = << >> /\ source # << >>
  /\ ~faulted /\ rerun # "interrupted"

\* the store the run leaves when self.db_path names the store written:
\* the same store, source and cache at the start of the run
WithOwnRegistry ==
  ImportAll(begun.conn, begun.conn, TRUE, begun.schema_cache, LogicalName, source)

\* C28: import_data(db_name, path) resolves the bindings against the
\* registry of the store db_name only: the tables, bindings and rows it
\* leaves are those it leaves when self.db_path names db_name, whatever
\* store self.db_path names.
C28_SingleStoreResolution ==
  RunEnded => store[conn] = WithOwnRegistry

\* C28 where the store written is the one self.db_path names
C28_SingleStoreResolutionSameStore ==
  (RunEnded /\ SameStore) => store[conn] = WithOwnRegistry

----------------------------------------------------------------------------
(* C29  Registry protection                                                 *)

\* the rows the last transaction added to the registry
AddedRows == SubSeq(New.schema, Len(Old.schema) + 1, Len(New.schema))

\* the transaction added nothing to the registry but the binding of the
\* table it created
OnlyTheBinding ==
  /\ Len(New.schema) >= Len(Old.schema)
  /\ SubSeq(New.schema, 1, Len(Old.schema)) = Old.schema
  /\ Len(AddedRows) <= 1
  /\ \A i \in 1..Len(AddedRows) :
        /\ last.created
        /\ AddedRows[i].table_name = last.table
        /\ AddedRows[i].hash_value = last.hash_value

\* C29: no import inserts an imported record into the registry table or
\* binds the name schema to a fingerprint; the records of a source whose
\* logical name is schema are stored under a versioned name.
C29_RegistryProtection ==
  /\ Txn => OnlyTheBinding
  /\ \A s \in Stores : ~Bound(store[s].schema, SCHEMA_TABLE)
  /\ \A w \in written : Lower(w[3]) = SCHEMA_TABLE => IsVersionOf(w[2], w[3])

\* the part of C29 that holds: a source whose logical name is schema, in
\* lower case, never reaches the registry and is stored under a versioned
\* name
C29_LowerCaseSchemaVersioned ==
  /\ (Txn /\ LogicalName = SCHEMA_TABLE) => OnlyTheBinding
  /\ \A w \in written : w[3] = SCHEMA_TABLE => IsVersionOf(w[2], w[3])

----------------------------------------------------------------------------
(* C30  Per-record routing                                                  *)

\* objects of two shapes, the second with one field more
RoutedRecords ==
  { << << F_id, "1" >>, << F_a, "x" >> >>,
    << << F_id, "2" >>, << F_a, "x" >> >>,
    << << F_id, "1" >>, << F_a, "x" >>, << F_b, "x" >> >> }

MaxRoutedTxns == 3

\* import_data is called with some store and the file user.json
ImportRoutedFile ==
  \E n \in 1..(MaxRoutedTxns - txns) :
     \E d \in Stores, f \in Paths, data \in [1..n -> RoutedRecords] :
        /\ Idle
        /\ txns' = txns + n
        /\ StartImport(d, f, data, FALSE)

NextRouted ==
  \/ ImportRoutedFile
  \/ ImportSingleJsonObject("none")
  \/ Finish

SpecRouted == Init /\ [][NextRouted]_vars

\* the columns of the table a name denotes in the store
ColumnsOf(db, table_name) ==
  IF table_name \in DOMAIN db.tables
  THEN Range(db.tables[table_name].columns)
  ELSE Range(SchemaColumns)

\* the last transaction stored its record in a table whose columns are
\* the field names of the record
RoutedByOwnFields ==
  /\ StoredTables(New, last.table) # {}
  /\ \A t \in StoredTables(New, last.table) :
        ColumnsOf(New, t) = Fields(last.json_object)

\* C30: each record of a source is fingerprinted on its own field names:
\* no row is stored in a table whose column set differs from the set of
\* the field names of the record it came from, whatever shapes the batch
\* mixes.
C30_PerRecordRouting ==
  (Txn /\ last.outcome = "inserted") => RoutedByOwnFields

\* C30 where the store written is the one self.db_path names
C30_PerRecordRoutingSameStore ==
  (Txn /\ last.outcome = "inserted" /\ SameStore) => RoutedByOwnFields

=============================================================================
